---- MODULE Spec2Model ----
(***************************************************************************)
(* Label2dViewer (the 2D label canvas viewer), the Viewer base class and   *)
(* the ToolBar of scalabel, as a state machine.  One action per DOM event  *)
(* handler or React lifecycle callback; each handler runs to completion.   *)
(*                                                                         *)
(* Label2DList (drawable/label2d_list), view/image and Session are not     *)
(* among the sources; they are modelled from the specification text.       *)
(*                                                                         *)
(* Abstractions: a point is one integer coordinate; a canvas is a map from *)
(* logical points to the colour painted there (device pixel =              *)
(* point * displayToImageRatio * UP_RES_RATIO both when painting and when  *)
(* sampling); a nullable reference is a BOOLEAN (TRUE = not null).         *)
(***************************************************************************)
EXTENDS Integers, Sequences, FiniteSets

VARIABLES
  viewer,     \* the fields of Label2dViewer
  labels,     \* Label2dViewer._labels, the Label2DList
  canvas,     \* the contents of the label canvas and of the control canvas
  session,    \* Session.getState(): user.select and the viewer config
  props,      \* Label2dViewer.props
  dom,        \* the document: registered listeners, the pointer
  hist        \* what the last handler did (calls made, intents dispatched)

vars == <<viewer, labels, canvas, session, props, dom, hist>>

----------------------------------------------------------------------------
\* Bounds of the model

MaxPoint == 1      \* points are 0..MaxPoint
MaxLabels == 1     \* labels of an item in the store
MaxShapes == 2     \* shapes the collection holds (labels and shapes being created)
MaxItem == 1       \* items are 0..MaxItem
MaxMounts == 2     \* times the Window is mounted
MaxAttributes == 2 \* attributes of the configuration
MaxValues == 2     \* values of one attribute

Points == 0..MaxPoint
Items == 0..MaxItem
Keys == {"Control", "Meta", "Backspace"}
PanKeys == {"Control"}
Buttons == {0, 2}
NA == 0 - 2    \* stands for an argument a call does not have

----------------------------------------------------------------------------
\* view/image

MIN_SCALE == 1
MAX_SCALE == 3
UP_RES_RATIO == 2
HandleBase == 8
DisplayWidth == 4
DisplayHeight == 3

\* colour written by drawControl for (shapeIndex, handleIndex); 0 is a cleared pixel
encodeControlIndex(shapeIndex, handleIndex) ==
  (shapeIndex + 1) * HandleBase + handleIndex

imageDataToHandleId(data) ==
  <<(data \div HandleBase) - 1, data % HandleBase>>

normalizeMouseCoordinates(displayToImageRatio, clientX) ==
  clientX \div displayToImageRatio

\* [canvasWidth, canvasHeight, displayToImageRatio, scale] for the requested
\* viewScale; scale * scaleDelta = scale * (viewScale / scale) = viewScale
updateCanvasScale(viewScale) ==
  <<DisplayWidth * viewScale, DisplayHeight * viewScale, viewScale, viewScale>>

ClearedCanvas == [p \in Points |-> 0]

clearCanvas(c) == [p \in DOMAIN c |-> 0]

----------------------------------------------------------------------------
\* drawable/label2d_list: Label2DList

Shape(pos, st) == [pos |-> pos, st |-> st]

AllIdle(shapes) == \A k \in 1..Len(shapes) : shapes[k].st = "Idle"

NonIdle(shapes) == {k \in 1..Len(shapes) : shapes[k].st # "Idle"}

\* rebuild the shape sequence from the label data of itemIndex
Label2DList_updateState(state, itemIndex) ==
  [item |-> itemIndex,
   shapes |-> [k \in 1..Len(state.labels) |-> Shape(state.labels[k], "Idle")]]

\* shapeIndex = -1 begins the creation of a new shape, otherwise the
\* addressed shape begins an edit
Label2DList_onMouseDown(lb, point, shapeIndex, handleIndex) ==
  IF shapeIndex = -1
  THEN [lb EXCEPT !.shapes = Append(@, Shape(point, "Creating"))]
  ELSE IF shapeIndex + 1 \in 1..Len(lb.shapes)
  THEN [lb EXCEPT !.shapes[shapeIndex + 1].st = "Editing"]
  ELSE lb

\* whether the mouse-down was consumed: an interaction began
Label2DList_onMouseDownResult(lb, shapeIndex) ==
  shapeIndex = -1 \/ shapeIndex + 1 \in 1..Len(lb.shapes)

\* whether a repaint is required: some shape is mid-interaction
Label2DList_onMouseMoveResult(lb) == NonIdle(lb.shapes) # {}

Label2DList_onMouseMove(lb, point) ==
  [lb EXCEPT !.shapes =
     [k \in 1..Len(@) |->
        IF @[k].st = "Idle" THEN @[k] ELSE [@[k] EXCEPT !.pos = point]]]

\* finalize: commit the geometry, back to Idle
Label2DList_onMouseUp(lb) ==
  [lb EXCEPT !.shapes = [k \in 1..Len(@) |-> [@[k] EXCEPT !.st = "Idle"]]]

RECURSIVE CommitIntents(_, _, _)
CommitIntents(lb, k, acc) ==
  IF k > Len(lb.shapes) THEN acc
  ELSE CommitIntents(lb, k + 1,
         IF lb.shapes[k].st = "Creating"
         THEN Append(acc, [type |-> "addLabel", item |-> lb.item,
                           label |-> k - 1, pos |-> lb.shapes[k].pos])
         ELSE IF lb.shapes[k].st = "Editing"
         THEN Append(acc, [type |-> "changeShape", item |-> lb.item,
                           label |-> k - 1, pos |-> lb.shapes[k].pos])
         ELSE acc)

\* the mutations onMouseUp dispatches to the store
Label2DList_onMouseUpDispatch(lb) == CommitIntents(lb, 1, <<>>)

\* topmost (last painted) shape at point p, 0 when none
TopShape(shapes, p) ==
  LET at == {k \in 1..Len(shapes) : shapes[k].pos = p}
  IN IF at = {} THEN 0 ELSE CHOOSE k \in at : \A j \in at : j <= k

DrawLabels(shapes) == [p \in Points |-> TopShape(shapes, p)]

DrawControl(shapes) ==
  [p \in Points |->
     IF TopShape(shapes, p) = 0 THEN 0
     ELSE encodeControlIndex(TopShape(shapes, p) - 1, 1)]

\* paint every shape onto the two canvases; a pixel no shape covers is kept
Label2DList_redraw(shapes, cv) ==
  [label |-> [p \in Points |->
                IF TopShape(shapes, p) = 0 THEN cv.label[p]
                ELSE DrawLabels(shapes)[p]],
   control |-> [p \in Points |->
                  IF TopShape(shapes, p) = 0 THEN cv.control[p]
                  ELSE DrawControl(shapes)[p]]]

----------------------------------------------------------------------------
\* components/label2d_viewer.tsx: Label2dViewer

NewViewer ==
  [keyDownMap |-> {}, scale |-> 1, canvasHeight |-> 0, canvasWidth |-> 0,
   displayToImageRatio |-> 1, controlContext |-> FALSE, controlCanvas |-> FALSE,
   labelContext |-> FALSE, labelCanvas |-> FALSE, display |-> FALSE,
   cursor |-> "auto"]

Call(op, point, shapeIndex, handleIndex, ratio) ==
  [op |-> op, point |-> point, shapeIndex |-> shapeIndex,
   handleIndex |-> handleIndex, ratio |-> ratio]

NoHist ==
  [type |-> "none", button |-> NA, clientX |-> NA, key |-> "",
   labels |-> <<>>, calls |-> <<>>, dispatched |-> <<>>, redraws |-> <<>>,
   ran |-> {}, display |-> FALSE, gesture |-> "none", result |-> FALSE,
   stopped |-> FALSE, toggleName |-> "", alignment |-> ""]

setCursor(v, cursor) ==
  IF v.labelCanvas THEN [v EXCEPT !.cursor = cursor] ELSE v

setDefaultCursor(v) == setCursor(v, "crosshair")

isKeyDown(v, key) == key \in v.keyDownMap

CanDraw(v) ==
  v.labelCanvas /\ v.labelContext /\ v.controlCanvas /\ v.controlContext

redrawReturn(v) == TRUE

\* redraw: what it leaves on the canvases, and the record of the call
redrawCanvasBlend(v, lb, cv) ==
  IF CanDraw(v)
  THEN [label |-> [p \in Points |-> cv.label[p] + DrawLabels(lb.shapes)[p]],
        control |-> [p \in Points |->
                       cv.control[p] + DrawControl(lb.shapes)[p]]]
  ELSE cv

redrawCanvasNoClear(v, lb, cv) ==
  IF CanDraw(v) THEN Label2DList_redraw(lb.shapes, cv) ELSE cv

redrawCanvas(v, lb, cv) ==
  IF CanDraw(v)
  THEN Label2DList_redraw(lb.shapes,
                          [label |-> clearCanvas(cv.label),
                           control |-> clearCanvas(cv.control)])
  ELSE cv

redrawCalls(v) ==
  IF CanDraw(v)
  THEN <<Call("clearCanvas.label", NA, NA, NA, NA),
         Call("clearCanvas.control", NA, NA, NA, NA),
         Call("labels.redraw", NA, NA, NA,
              v.displayToImageRatio * UP_RES_RATIO)>>
  ELSE <<>>

redrawRecord(v) == [ret |-> redrawReturn(v), painted |-> CanDraw(v)]

getMousePos(v, clientX) ==
  IF v.display /\ v.labelCanvas
  THEN normalizeMouseCoordinates(v.displayToImageRatio, clientX)
  ELSE 0

fetchHandleId(v, cv, mousePos) ==
  IF v.controlContext
  THEN imageDataToHandleId(cv.control[mousePos])
  ELSE <<-1, 0>>

scaleInRangeLowerOnly(viewScale) == ~(viewScale < MIN_SCALE)

scaleInRange(viewScale) ==
  ~(viewScale < MIN_SCALE \/ viewScale >= MAX_SCALE)

updateScale(v, viewScale) ==
  IF ~v.display THEN v
  ELSE IF ~scaleInRange(viewScale) THEN v
  ELSE LET r == updateCanvasScale(viewScale)
       IN [v EXCEPT !.canvasWidth = r[1], !.canvasHeight = r[2],
                    !.displayToImageRatio = r[3], !.scale = r[4]]

refControlCanvasResets(v, context, rectOk, viewScale) ==
  IF v.display
  THEN LET v1 == [v EXCEPT !.controlCanvas = TRUE, !.controlContext = context]
       IN IF rectOk /\ context THEN updateScale(v1, viewScale) ELSE v1
  ELSE [v EXCEPT !.canvasWidth = 0, !.canvasHeight = 0]

\* the ref callback of the control canvas (render)
refControlCanvas(v, context, rectOk, viewScale) ==
  IF v.display
  THEN LET v1 == [v EXCEPT !.controlCanvas = TRUE, !.controlContext = context]
       IN IF rectOk /\ context THEN updateScale(v1, viewScale) ELSE v1
  ELSE v

\* the ref callback of the label canvas (render)
refLabelCanvas(v, context, rectOk, viewScale) ==
  IF v.display
  THEN LET v1 == [v EXCEPT !.labelCanvas = TRUE, !.labelContext = context]
       IN IF rectOk /\ context THEN updateScale(v1, viewScale) ELSE v1
  ELSE v

render(v, ctxC, ctxL, rectOk, viewScale) ==
  refLabelCanvas(refControlCanvas(v, ctxC, rectOk, viewScale),
                 ctxL, rectOk, viewScale)

\* the updateScale calls of the two ref callbacks, with the requested viewScale
renderCalls(v, ctxC, ctxL, rectOk, viewScale) ==
  (IF v.display /\ rectOk /\ ctxC
   THEN <<Call("updateScale", NA, NA, NA, viewScale)>> ELSE <<>>)
  \o (IF v.display /\ rectOk /\ ctxL
      THEN <<Call("updateScale", NA, NA, NA, viewScale)>> ELSE <<>>)

mouseDownForwardsUngated(v, button) == button = 0

\* onMouseDown: left button, and Control not held (Control + click drags)
mouseDownForwards(v, button) == button = 0 /\ ~isKeyDown(v, "Control")

mouseUpForwardsAnyButton(v, button) == TRUE

mouseUpForwardsGated(v, button) == button = 0 /\ ~isKeyDown(v, "Control")

\* onMouseUp: left button
mouseUpForwards(v, button) == button = 0

mouseMoveForwardsGated(v) == ~isKeyDown(v, "Control")

\* onMouseMove: the collection is called whatever the keys
mouseMoveForwards(v) == TRUE

\* componentDidMount: the listeners it adds to the document, for the
\* component instance i
componentDidMount(listeners, i) ==
  listeners \cup {<<"viewer.keydown", i>>, <<"viewer.keyup", i>>}

\* Label2dViewer declares no componentWillUnmount
componentWillUnmount(listeners, i) == listeners

mouseMoveRedrawsAlways(result) == TRUE

\* onMouseMove: stopPropagation and redraw when the collection returned true
mouseMoveRedraws(result) == result

onKeyDownSingleKey(v, key) == [v EXCEPT !.keyDownMap = {key}]

onKeyDown(v, key) == [v EXCEPT !.keyDownMap = @ \cup {key}]

onKeyUp(v, key) ==
  LET v1 == [v EXCEPT !.keyDownMap = @ \ {key}]
  IN IF key = "Control" \/ key = "Meta" THEN setDefaultCursor(v1) ELSE v1

----------------------------------------------------------------------------
\* components/viewer.ts: Viewer

\* Label2dViewer.updateState
updateState(v, lb, state, display) ==
  [viewer |-> [v EXCEPT !.display = display],
   labels |-> Label2DList_updateState(state, state.select.item)]

componentDidUpdateRedrawFirst(v, lb, cv, state, display) ==
  LET u == updateState(v, lb, state, display)
  IN [viewer |-> u.viewer,
      labels |-> u.labels,
      canvas |-> redrawCanvas(v, lb, cv),
      calls |-> <<Call("redraw", NA, NA, NA, NA)>> \o redrawCalls(v)
                \o <<Call("updateState", NA, NA, NA, NA)>>,
      redraws |-> <<redrawRecord(v)>>]

\* Viewer.componentDidUpdate: updateState, then redraw
componentDidUpdate(v, lb, cv, state, display) ==
  LET u == updateState(v, lb, state, display)
  IN [viewer |-> u.viewer,
      labels |-> u.labels,
      canvas |-> redrawCanvas(u.viewer, u.labels, cv),
      calls |-> <<Call("updateState", NA, NA, NA, NA),
                  Call("redraw", NA, NA, NA, NA)>> \o redrawCalls(u.viewer),
      redraws |-> <<redrawRecord(u.viewer)>>]

----------------------------------------------------------------------------
\* ToolBar

deleteLabel(item, label) ==
  [type |-> "deleteLabel", item |-> item, label |-> label, pos |-> NA]

onDeleteLabel(state) ==
  IF state.select.label >= 0
  THEN <<deleteLabel(state.select.item, state.select.label)>>
  ELSE <<>>

keyDownHandlerAnyKey(state, key) ==
  IF state.select.label >= 0
  THEN <<deleteLabel(state.select.item, state.select.label)>>
  ELSE <<>>

keyDownHandler(state, key) ==
  IF key = "Backspace"
  THEN IF state.select.label >= 0
       THEN <<deleteLabel(state.select.item, state.select.label)>>
       ELSE <<>>
  ELSE <<>>

addLabelTag(attributeIndex, selectedIndex) ==
  [type |-> "addLabelTag", attributeIndex |-> attributeIndex,
   selectedIndex |-> selectedIndex]

\* Array.prototype.indexOf: the first position of x, counted from 0, or -1
indexOf(array, x) ==
  LET at == {k \in 1..Len(array) : array[k] = x}
  IN IF at = {} THEN -1 ELSE (CHOOSE k \in at : \A j \in at : k <= j) - 1

getAttributeIndexFirst(allAttributes, toggleName) ==
  LET at == {k \in 1..Len(allAttributes) : allAttributes[k].name = toggleName}
  IN IF at = {} THEN -1 ELSE (CHOOSE k \in at : \A j \in at : k <= j) - 1

\* the loop of getAttributeIndex from index i on (no break)
RECURSIVE getAttributeIndexLoop(_, _, _, _)
getAttributeIndexLoop(allAttributes, toggleName, i, attributeIndex) ==
  IF i < Len(allAttributes)
  THEN getAttributeIndexLoop(allAttributes, toggleName, i + 1,
         IF allAttributes[i + 1].name = toggleName THEN i ELSE attributeIndex)
  ELSE attributeIndex

getAttributeIndex(allAttributes, toggleName) ==
  getAttributeIndexLoop(allAttributes, toggleName, 0, -1)

\* handleAttributeToggle: the actions it dispatches
handleAttributeToggle(state, toggleName, alignment) ==
  LET allAttributes == state.attributes
      attributeIndex == getAttributeIndex(allAttributes, toggleName)
  IN IF attributeIndex = -1 THEN <<>>
     ELSE <<addLabelTag(attributeIndex,
                        indexOf(allAttributes[attributeIndex + 1].values,
                                alignment))>>

ToolBar_componentDidMount(listeners, i) ==
  listeners \cup {<<"toolbar.keydown", i>>}

ToolBar_componentWillUnmountOtherRef(listeners, i) == listeners

\* removeEventListener with the function the constructor bound
ToolBar_componentWillUnmount(listeners, i) ==
  listeners \ {<<"toolbar.keydown", i>>}

\* what the registered ToolBar keydown listeners dispatch for one keydown,
\* the listeners of instances 1..n in the order they were added
RECURSIVE ToolBarKeyDowns(_, _, _, _)
ToolBarKeyDowns(listeners, state, key, n) ==
  IF n = 0 THEN <<>>
  ELSE ToolBarKeyDowns(listeners, state, key, n - 1)
       \o (IF <<"toolbar.keydown", n>> \in listeners
           THEN keyDownHandler(state, key) ELSE <<>>)

----------------------------------------------------------------------------
\* Session: the store.  Its reducers are outside the engine; a store change
\* replaces one slice of the state and notifies the subscribed components.

\* requested scales: below, at and above both ends of [MIN_SCALE, MAX_SCALE]
ViewScales == (MIN_SCALE - 1)..(MAX_SCALE + 1)

Selects == [item : Items, label : -1..(MaxLabels - 1)]

\* state.task.config.attributes: names may repeat, values may repeat
AttributeNames == {"occluded", "truncated"}
AttributeValues == {"on", "off"}
Alignments == AttributeValues \cup {"other"}
ToggleNames == AttributeNames \cup {"crossing"}
Attributes ==
  [name : AttributeNames,
   values : UNION {[1..n -> AttributeValues] : n \in 0..MaxValues}]
AttributeConfigs == UNION {[1..n -> Attributes] : n \in 0..MaxAttributes}

\* the label data of an item: the position of each label
LabelSeqs == UNION {[1..n -> Points] : n \in 0..MaxLabels}

----------------------------------------------------------------------------
\* The state machine

\* the state after construction, for the attributes of the configuration
InitConfig(attributes) ==
  /\ viewer = NewViewer
  /\ labels = [item |-> 0, shapes |-> <<>>]
  /\ canvas = [label |-> ClearedCanvas, control |-> ClearedCanvas]
  /\ session = [select |-> [item |-> 0, label |-> -1], viewScale |-> 1,
                attributes |-> attributes]
  /\ props = [display |-> FALSE]
  /\ dom \in [mounted : {FALSE}, instance : {0}, listeners : {{}},
              lastDown : {{}}, inside : {FALSE}, leftDown : {FALSE},
              gesture : {"none"},
              context2d : BOOLEAN]
  /\ hist = NoHist

Init == InitConfig(<<>>)

InitAttributes == \E attributes \in AttributeConfigs : InitConfig(attributes)

\* Window mounts: a new Label2dViewer and a new ToolBar are constructed,
\* first render (display is null, the refs store nothing), then
\* componentDidMount of the viewer and of the ToolBar.  lastDown restarts: it
\* is the set of keys whose latest key event, since this viewer exists, was a
\* keydown.
Mount ==
  /\ ~dom.mounted
  /\ dom.instance < MaxMounts
  /\ viewer' = NewViewer
  /\ labels' = [item |-> 0, shapes |-> <<>>]
  /\ canvas' = [label |-> ClearedCanvas, control |-> ClearedCanvas]
  /\ dom' = [dom EXCEPT
               !.mounted = TRUE,
               !.instance = @ + 1,
               !.listeners =
                 ToolBar_componentDidMount(
                   componentDidMount(@, dom.instance + 1), dom.instance + 1),
               !.lastDown = {}]
  /\ hist' = [NoHist EXCEPT !.type = "mount"]
  /\ UNCHANGED <<session, props>>

\* Window unmounts: componentWillUnmount of the viewer and of the ToolBar;
\* the canvases leave the document
Unmount ==
  /\ dom.mounted
  /\ dom' = [dom EXCEPT
               !.mounted = FALSE,
               !.inside = FALSE,
               !.listeners =
                 ToolBar_componentWillUnmount(
                   componentWillUnmount(@, dom.instance), dom.instance)]
  /\ hist' = [NoHist EXCEPT !.type = "unmount"]
  /\ UNCHANGED <<viewer, labels, canvas, session, props>>

\* A store change, or new props from the parent: the component re-renders
\* (the ref callbacks run), then Viewer.componentDidUpdate runs updateState
\* and redraw.  state is the snapshot this.state.session of the notification.
Notify(state, display, rectOk) ==
  /\ dom.mounted
  /\ \E v1 \in {render(viewer, dom.context2d, dom.context2d, rectOk,
                       state.viewScale)} :
     \E r \in {componentDidUpdate(v1, labels, canvas, state, display)} :
        /\ viewer' = r.viewer
        /\ labels' = r.labels
        /\ canvas' = r.canvas
        /\ hist' = [NoHist EXCEPT
                      !.type = "notify", !.labels = state.labels,
                      !.display = viewer.display,
                      !.calls = renderCalls(viewer, dom.context2d,
                                            dom.context2d, rectOk,
                                            state.viewScale) \o r.calls,
                      !.redraws = r.redraws]
  /\ session' = [session EXCEPT !.select = state.select,
                                !.viewScale = state.viewScale]
  /\ props' = [display |-> display]
  /\ UNCHANGED dom

\* mousedown on the label canvas
MouseDown(button, clientX) ==
  /\ dom.mounted /\ dom.inside
  /\ button = 0 => ~dom.leftDown
  /\ \E fwd \in {mouseDownForwards(viewer, button)},
        mousePos \in {getMousePos(viewer, clientX)} :
     \E id \in {fetchHandleId(viewer, canvas, mousePos)} :
     \E lb \in {IF fwd
                 THEN Label2DList_onMouseDown(labels, mousePos, id[1], id[2])
                 ELSE labels} :
        /\ Len(lb.shapes) <= MaxShapes
        /\ labels' = lb
        /\ canvas' = IF button = 0 THEN redrawCanvas(viewer, lb, canvas)
                     ELSE canvas
        /\ hist' = [NoHist EXCEPT
                      !.type = "mousedown", !.button = button,
                      !.clientX = clientX,
                      !.result =
                        fwd /\ Label2DList_onMouseDownResult(labels, id[1]),
                      !.stopped =
                        fwd /\ Label2DList_onMouseDownResult(labels, id[1]),
                      !.calls =
                        (IF fwd
                         THEN <<Call("onMouseDown", mousePos, id[1], id[2], NA)>>
                         ELSE <<>>)
                        \o (IF button = 0
                            THEN <<Call("redraw", NA, NA, NA, NA)>>
                                 \o redrawCalls(viewer)
                            ELSE <<>>),
                      !.redraws = IF button = 0 THEN <<redrawRecord(viewer)>>
                                  ELSE <<>>]
  /\ dom' = [dom EXCEPT
               !.leftDown = IF button = 0 THEN TRUE ELSE @,
               !.gesture = IF button # 0 THEN @
                           ELSE IF mouseDownForwards(viewer, button)
                           THEN "forwarded" ELSE "unforwarded"]
  /\ UNCHANGED <<viewer, session, props>>

\* mouseup on the label canvas
MouseUp(button, clientX) ==
  /\ dom.mounted /\ dom.inside
  /\ button = 0 => dom.leftDown
  /\ \E fwd \in {mouseUpForwards(viewer, button)},
        mousePos \in {getMousePos(viewer, clientX)} :
     \E id \in {fetchHandleId(viewer, canvas, mousePos)} :
     \E lb \in {IF fwd THEN Label2DList_onMouseUp(labels) ELSE labels} :
        /\ labels' = lb
        /\ canvas' = IF button = 0 THEN redrawCanvas(viewer, lb, canvas)
                     ELSE canvas
        /\ hist' = [NoHist EXCEPT
                      !.type = "mouseup", !.button = button,
                      !.gesture = dom.gesture,
                      !.clientX = clientX,
                      !.calls =
                        (IF fwd
                         THEN <<Call("onMouseUp", mousePos, id[1], id[2], NA)>>
                         ELSE <<>>)
                        \o (IF button = 0
                            THEN <<Call("redraw", NA, NA, NA, NA)>>
                                 \o redrawCalls(viewer)
                            ELSE <<>>),
                      !.dispatched =
                        IF fwd THEN Label2DList_onMouseUpDispatch(labels)
                        ELSE <<>>,
                      !.redraws = IF button = 0 THEN <<redrawRecord(viewer)>>
                                  ELSE <<>>]
  /\ dom' = [dom EXCEPT !.leftDown = IF button = 0 THEN FALSE ELSE @,
                        !.gesture = IF button = 0 THEN "none" ELSE @]
  /\ UNCHANGED <<viewer, session, props>>

\* mousemove on the label canvas
MouseMove(clientX) ==
  /\ dom.mounted /\ dom.inside
  /\ \E v1 \in {IF ~isKeyDown(viewer, "Control")
                 THEN setDefaultCursor(viewer) ELSE viewer},
        fwd \in {mouseMoveForwards(viewer)} :
     \E mousePos \in {getMousePos(v1, clientX)} :
     \E id \in {fetchHandleId(v1, canvas, mousePos)},
        result \in {fwd /\ Label2DList_onMouseMoveResult(labels)},
        lb \in {IF fwd THEN Label2DList_onMouseMove(labels, mousePos)
                ELSE labels} :
     \E moved \in {mouseMoveRedraws(result)} :
        /\ viewer' = v1
        /\ labels' = lb
        /\ canvas' = IF moved THEN redrawCanvas(v1, lb, canvas) ELSE canvas
        /\ hist' = [NoHist EXCEPT
                      !.type = "mousemove", !.clientX = clientX,
                      !.result = result, !.stopped = moved,
                      !.calls =
                        (IF fwd
                         THEN <<Call("onMouseMove", mousePos, id[1], id[2], NA)>>
                         ELSE <<>>)
                        \o (IF moved
                            THEN <<Call("redraw", NA, NA, NA, NA)>>
                                 \o redrawCalls(v1)
                            ELSE <<>>),
                      !.redraws = IF moved THEN <<redrawRecord(v1)>>
                                  ELSE <<>>]
  /\ UNCHANGED <<session, props, dom>>

\* the pointer leaves the canvas
PointerLeave ==
  /\ dom.mounted /\ dom.inside
  /\ dom' = [dom EXCEPT !.inside = FALSE]
  /\ hist' = [NoHist EXCEPT !.type = "leave"]
  /\ UNCHANGED <<viewer, labels, canvas, session, props>>

\* the pointer enters the canvas
PointerEnter ==
  /\ dom.mounted /\ ~dom.inside
  /\ dom' = [dom EXCEPT !.inside = TRUE]
  /\ hist' = [NoHist EXCEPT !.type = "enter"]
  /\ UNCHANGED <<viewer, labels, canvas, session, props>>

\* the left button is released outside the canvas: the document has no
\* mouseup listener and the canvas' own listener does not see the event
ReleaseOutside ==
  /\ dom.mounted /\ ~dom.inside /\ dom.leftDown
  /\ dom' = [dom EXCEPT !.leftDown = FALSE, !.gesture = "none"]
  /\ hist' = [NoHist EXCEPT !.type = "release", !.button = 0]
  /\ UNCHANGED <<viewer, labels, canvas, session, props>>

\* the left button is pressed outside the canvas: no listener sees it
PressOutside ==
  /\ dom.mounted /\ ~dom.inside /\ ~dom.leftDown
  /\ dom' = [dom EXCEPT !.leftDown = TRUE, !.gesture = "unforwarded"]
  /\ hist' = [NoHist EXCEPT !.type = "press", !.button = 0]
  /\ UNCHANGED <<viewer, labels, canvas, session, props>>

\* keydown on the document: every registered keydown listener runs.  viewer
\* is the instance constructed last; the listeners of earlier instances run
\* on objects nothing else refers to.
KeyDown(key) ==
  /\ dom.instance > 0
  /\ viewer' = IF <<"viewer.keydown", dom.instance>> \in dom.listeners
               THEN onKeyDown(viewer, key) ELSE viewer
  /\ hist' = [NoHist EXCEPT
                !.type = "keydown", !.key = key,
                !.ran = {l \in dom.listeners :
                           l[1] \in {"viewer.keydown", "toolbar.keydown"}},
                !.dispatched =
                  ToolBarKeyDowns(dom.listeners, session, key, dom.instance)]
  /\ dom' = [dom EXCEPT !.lastDown = @ \cup {key}]
  /\ UNCHANGED <<labels, canvas, session, props>>

\* keyup on the document
KeyUp(key) ==
  /\ dom.instance > 0
  /\ viewer' = IF <<"viewer.keyup", dom.instance>> \in dom.listeners
               THEN onKeyUp(viewer, key) ELSE viewer
  /\ hist' = [NoHist EXCEPT
                !.type = "keyup", !.key = key,
                !.ran = {l \in dom.listeners : l[1] = "viewer.keyup"}]
  /\ dom' = [dom EXCEPT !.lastDown = @ \ {key}]
  /\ UNCHANGED <<labels, canvas, session, props>>

\* a click on the Delete button of the ToolBar
ClickDelete ==
  /\ dom.mounted
  /\ hist' = [NoHist EXCEPT !.type = "delete",
                            !.dispatched = onDeleteLabel(session)]
  /\ UNCHANGED <<viewer, labels, canvas, session, props, dom>>

\* a caller outside the component invokes the public redraw()
Redraw ==
  /\ dom.mounted
  /\ canvas' = redrawCanvas(viewer, labels, canvas)
  /\ hist' = [NoHist EXCEPT
                !.type = "redraw",
                !.calls = <<Call("redraw", NA, NA, NA, NA)>>
                          \o redrawCalls(viewer),
                !.redraws = <<redrawRecord(viewer)>>]
  /\ UNCHANGED <<viewer, labels, session, props, dom>>

\* an attribute toggle of the ToolBar is switched
HandleAttributeToggle(toggleName, alignment) ==
  /\ dom.mounted
  /\ hist' = [NoHist EXCEPT
                !.type = "toggle", !.toggleName = toggleName,
                !.alignment = alignment,
                !.dispatched =
                  handleAttributeToggle(session, toggleName, alignment)]
  /\ UNCHANGED <<viewer, labels, canvas, session, props, dom>>

\* The interaction engine: the store changes the labels of the item
Next ==
  \/ Mount
  \/ \E ls \in LabelSeqs, display \in BOOLEAN :
       Notify([select |-> session.select, viewScale |-> session.viewScale,
               labels |-> ls], display, TRUE)
  \/ \E button \in Buttons, clientX \in Points : MouseDown(button, clientX)
  \/ \E button \in Buttons, clientX \in Points : MouseUp(button, clientX)
  \/ \E clientX \in Points : MouseMove(clientX)
  \/ PointerLeave
  \/ PointerEnter
  \/ ReleaseOutside
  \/ PressOutside
  \/ \E key \in PanKeys : KeyDown(key)
  \/ \E key \in PanKeys : KeyUp(key)

Spec == Init /\ [][Next]_vars

\* The zoom requests of the store, with the pointer events that read the
\* resulting ratio
NextScale ==
  \/ Mount
  \/ \E viewScale \in ViewScales, display, rectOk \in BOOLEAN :
       Notify([select |-> session.select, viewScale |-> viewScale,
               labels |-> <<>>], display, rectOk)
  \/ \E button \in Buttons, clientX \in Points : MouseDown(button, clientX)
  \/ \E button \in Buttons, clientX \in Points : MouseUp(button, clientX)
  \/ \E clientX \in Points : MouseMove(clientX)
  \/ PointerLeave
  \/ PointerEnter

SpecScale == Init /\ [][NextScale]_vars

\* The ToolBar: selection changes of the store, key events, the Delete button
NextToolBar ==
  \/ Mount
  \/ \E select \in Selects, rectOk \in BOOLEAN :
       Notify([select |-> select, viewScale |-> session.viewScale,
               labels |-> <<>>], props.display, rectOk)
  \/ \E key \in Keys : KeyDown(key)
  \/ \E key \in Keys : KeyUp(key)
  \/ ClickDelete
  \/ Unmount

SpecToolBar == Init /\ [][NextToolBar]_vars

\* The keyboard: every key, with the pointer events, the store notifications
\* and the redraws that run between the key events
NextKeys ==
  \/ Mount
  \/ \E display \in BOOLEAN :
       Notify([select |-> session.select, viewScale |-> session.viewScale,
               labels |-> <<>>], display, TRUE)
  \/ \E button \in Buttons, clientX \in Points : MouseDown(button, clientX)
  \/ \E button \in Buttons, clientX \in Points : MouseUp(button, clientX)
  \/ \E clientX \in Points : MouseMove(clientX)
  \/ PointerLeave
  \/ PointerEnter
  \/ \E key \in Keys : KeyDown(key)
  \/ \E key \in Keys : KeyUp(key)
  \/ Redraw

SpecKeys == Init /\ [][NextKeys]_vars

\* The attribute toggles of the ToolBar, for every configuration
NextAttributes ==
  \/ Mount
  \/ \E toggleName \in ToggleNames, alignment \in Alignments :
       HandleAttributeToggle(toggleName, alignment)

SpecAttributes == InitAttributes /\ [][NextAttributes]_vars

----------------------------------------------------------------------------
\* Properties

HasCall(op) == \E i \in 1..Len(hist.calls) : hist.calls[i].op = op

HasCallNext(op) == \E i \in 1..Len(hist'.calls) : hist'.calls[i].op = op

CallIndex(op) == CHOOSE i \in 1..Len(hist.calls) : hist.calls[i].op = op

IsMouseEvent(type) == type \in {"mousedown", "mousemove", "mouseup"}

\* C1: the realized scale is always within [MIN_SCALE, MAX_SCALE], and an
\* updateScale call whose requested viewScale is outside [MIN_SCALE, MAX_SCALE]
\* leaves the realized scale as it was.
C1_ScaleWithinBounds ==
  /\ [](MIN_SCALE <= viewer.scale /\ viewer.scale <= MAX_SCALE)
  /\ [][(HasCallNext("updateScale")
         /\ (session'.viewScale < MIN_SCALE \/ session'.viewScale > MAX_SCALE))
        => viewer'.scale = viewer.scale]_vars

\* an out-of-range request reached updateScale after a scale other than the
\* initial one had been realized
C1_Witness ==
  /\ HasCall("updateScale")
  /\ session.viewScale > MAX_SCALE
  /\ viewer.scale = MIN_SCALE + 1

\* C2: no state keeps an interaction non-Idle once the left button has been
\* released (a release outside the canvas commits the interaction too).
C2_ReleaseCommits == ~dom.leftDown => AllIdle(labels.shapes)

\* C3: every left-button mouse-up the viewer receives calls the collection's
\* onMouseUp, whatever keys are down, and leaves every shape Idle.
C3_MouseUpAlwaysForwards ==
  (hist.type = "mouseup" /\ hist.button = 0)
    => /\ Len(hist.calls) >= 1
       /\ hist.calls[1].op = "onMouseUp"
       /\ AllIdle(labels.shapes)

\* a mouse-up with Control held committed an interaction
C3_Witness ==
  /\ hist.type = "mouseup" /\ hist.button = 0
  /\ "Control" \in viewer.keyDownMap
  /\ hist.dispatched # <<>>

\* C4: a left-button mouse-down calls the collection's onMouseDown, with the
\* logical point and the handle id decoded from the control canvas, if and
\* only if Control is not in the Key-Down Set.
C4_MouseDownGate ==
  [][(hist'.type = "mousedown" /\ hist'.button = 0)
     => IF "Control" \in viewer.keyDownMap
        THEN ~HasCallNext("onMouseDown")
        ELSE LET point == IF viewer.display /\ viewer.labelCanvas
                          THEN hist'.clientX \div viewer.displayToImageRatio
                          ELSE 0
                 data == IF viewer.controlContext THEN canvas.control[point]
                         ELSE 0
             IN hist'.calls[1] =
                  Call("onMouseDown", point, (data \div HandleBase) - 1,
                       data % HandleBase, NA)]_vars

\* a left mouse-down with Control held reached no shape although one was
\* under the pointer
C4_Witness ==
  /\ hist.type = "mousedown" /\ hist.button = 0
  /\ "Control" \in viewer.keyDownMap
  /\ ~HasCall("onMouseDown")
  /\ viewer.controlContext
  /\ \E p \in Points : canvas.control[p] # 0

\* C5 as stated: with Control in the Key-Down Set a mouse-move does not
\* reach the collection.
C5_MoveGatedByPan ==
  (hist.type = "mousemove" /\ "Control" \in viewer.keyDownMap)
    => ~HasCall("onMouseMove")

\* C5 amended: every mouse-move calls the collection's onMouseMove, whatever
\* the Key-Down Set; with Control held only the cursor is left alone.
C5_MoveAlwaysForwards ==
  [][hist'.type = "mousemove"
     => /\ Len(hist'.calls) >= 1
        /\ hist'.calls[1].op = "onMouseMove"
        /\ "Control" \in viewer.keyDownMap => viewer'.cursor = viewer.cursor]_vars

\* a mouse-move with Control held moved a shape that is mid-interaction
C5_Witness ==
  /\ hist.type = "mousemove"
  /\ "Control" \in viewer.keyDownMap
  /\ HasCall("onMouseMove")
  /\ HasCall("labels.redraw")
  /\ NonIdle(labels.shapes) # {}

\* C6: at most one shape is in a non-Idle interaction state.
C6_SingleActiveInteraction == Cardinality(NonIdle(labels.shapes)) <= 1

\* C7: Backspace, or the Delete button, of the mounted ToolBar dispatches
\* exactly one delete-label intent for (select.item, select.label) when
\* select.label >= 0 and nothing otherwise; any other key dispatches nothing.
C7_DeleteIntent ==
  LET expected ==
        IF session.select.label >= 0
        THEN <<[type |-> "deleteLabel", item |-> session.select.item,
                label |-> session.select.label, pos |-> NA]>>
        ELSE <<>>
  IN /\ (hist.type = "keydown" /\ hist.key = "Backspace" /\ dom.mounted)
          => hist.dispatched = expected
     /\ hist.type = "delete" => hist.dispatched = expected
     /\ (hist.type = "keydown" /\ hist.key # "Backspace")
          => hist.dispatched = <<>>

\* Backspace with a label of the last item selected
C7_Witness ==
  /\ hist.type = "keydown" /\ hist.key = "Backspace"
  /\ dom.mounted
  /\ session.select.label >= 0
  /\ session.select.item = MaxItem
  /\ Len(hist.dispatched) = 1

\* C8: while display, a canvas or a context is null, a mouse event changes
\* nothing of the collection and dispatches nothing, redraw paints nothing
\* and the scale fields stay as they are.
C8_UnmountedNoOp ==
  [][(IsMouseEvent(hist'.type)
      /\ ~(viewer.display /\ CanDraw(viewer)))
     => /\ labels' = labels
        /\ hist'.dispatched = <<>>
        /\ canvas' = canvas
        /\ viewer'.scale = viewer.scale]_vars

\* C9: a state change notification runs updateState and then redraw; the
\* shapes are those rebuilt from the labels of the notification, and when
\* the canvases exist the label canvas shows exactly these shapes.
C9_UpdateThenRedraw ==
  hist.type = "notify"
    => /\ HasCall("updateState") /\ HasCall("redraw")
       /\ CallIndex("updateState") < CallIndex("redraw")
       /\ Len(labels.shapes) = Len(hist.labels)
       /\ \A k \in 1..Len(hist.labels) :
            labels.shapes[k] = [pos |-> hist.labels[k], st |-> "Idle"]
       /\ labels.item = session.select.item
       /\ CanDraw(viewer)
            => \A p \in Points :
                 /\ canvas.label[p] \in 0..Len(hist.labels)
                 /\ canvas.label[p] # 0 => hist.labels[canvas.label[p]] = p
                 /\ \A k \in 1..Len(hist.labels) :
                      hist.labels[k] = p => canvas.label[p] >= k

\* a notification with labels was painted
C9_Witness ==
  /\ hist.type = "notify"
  /\ CanDraw(viewer)
  /\ hist.labels # <<>>
  /\ HasCall("labels.redraw")
  /\ \E p \in Points : canvas.label[p] # 0

\* C10: redraw returns true exactly when the canvases and contexts exist and
\* the frame was repainted.
C10_RedrawReturnsWhetherDrawn ==
  \A i \in 1..Len(hist.redraws) :
    hist.redraws[i].ret = hist.redraws[i].painted

\* C11: redraw is idempotent.  Whenever a handler has just run redraw, running
\* redraw again on the state it left reproduces both canvases exactly, and a
\* call of redraw changes no field of the viewer and no shape of the collection.
C11_RedrawIdempotent ==
  /\ [](hist.redraws # <<>> => redrawCanvas(viewer, labels, canvas) = canvas)
  /\ [][hist'.type = "redraw" => (viewer' = viewer /\ labels' = labels)]_vars

C11_Witness ==
  /\ hist.type = "redraw"
  /\ CanDraw(viewer)
  /\ canvas.label # ClearedCanvas
  /\ canvas.control # ClearedCanvas

\* C12: the Key-Down Set holds exactly the keys whose latest key event was a
\* keydown, and only the keydown and keyup handlers change it: a pointer event,
\* a redraw and a store notification (updateState, updateScale) leave it as it
\* was.
C12_KeyDownSetTracksKeys ==
  /\ [](viewer.keyDownMap = dom.lastDown)
  /\ [][hist'.type \in {"mousedown", "mouseup", "mousemove", "redraw", "notify"}
         => viewer'.keyDownMap = viewer.keyDownMap]_vars

C12_Witness ==
  /\ hist.type = "mousemove"
  /\ HasCall("labels.redraw")
  /\ viewer.keyDownMap = {"Control", "Backspace"}
  /\ viewer.scale = session.viewScale
  /\ viewer.canvasWidth # 0

ViewerListeners == {"viewer.keydown", "viewer.keyup"}

\* C13: the viewer's document listeners are detached on unmount.  A key event
\* after the unmount runs no listener of the viewer, and every registered
\* viewer listener belongs to the viewer that is mounted now.
C13_ListenersDetachedOnUnmount ==
  /\ (hist.type \in {"keydown", "keyup"} /\ ~dom.mounted)
     => \A l \in hist.ran : l[1] \notin ViewerListeners
  /\ \A l \in dom.listeners :
       l[1] \in ViewerListeners => (dom.mounted /\ l[2] = dom.instance)

ScaleFields(v) ==
  <<v.canvasWidth, v.canvasHeight, v.displayToImageRatio, v.scale>>

\* C14: while display is absent no step changes canvasWidth, canvasHeight,
\* displayToImageRatio or scale, so the stale values stay and a dimension that
\* was set is never put back to zero; whenever one of the four changes, an
\* updateScale call made the change and all four hold the result of that one
\* call for the requested viewScale.
C14_AbsentDisplayKeepsScale ==
  [][hist'.type # "mount" =>
       /\ ~viewer.display => ScaleFields(viewer') = ScaleFields(viewer)
       /\ viewer.canvasWidth # 0 => viewer'.canvasWidth # 0
       /\ viewer.canvasHeight # 0 => viewer'.canvasHeight # 0
       /\ ScaleFields(viewer') # ScaleFields(viewer)
          => /\ HasCallNext("updateScale")
             /\ viewer.display
             /\ ScaleFields(viewer') = updateCanvasScale(session'.viewScale)]_vars

C14_Witness ==
  /\ hist.type = "notify"
  /\ ~hist.display
  /\ dom.context2d
  /\ viewer.canvasWidth # 0
  /\ viewer.scale # session.viewScale
  /\ MIN_SCALE <= session.viewScale
  /\ session.viewScale < MAX_SCALE

\* C15: updateScale rejects a request exactly when the requested viewScale is
\* outside the closed interval [MIN_SCALE, MAX_SCALE]: a request inside it,
\* the two ends included, becomes the realized scale, and a request outside it
\* leaves the scale as it was.
C15_ClosedIntervalAccepted ==
  [][HasCallNext("updateScale") =>
       IF MIN_SCALE <= session'.viewScale /\ session'.viewScale <= MAX_SCALE
       THEN viewer'.scale = session'.viewScale
       ELSE viewer'.scale = viewer.scale]_vars

\* C16 as stated: the collection's onMouseUp is called for a gesture only if
\* its onMouseDown was called for the mouse-down of that gesture.
C16_UpOnlyAfterForwardedDown ==
  (hist.type = "mouseup" /\ HasCall("onMouseUp"))
    => hist.gesture = "forwarded"

\* C16, amended: every left-button mouse-up on the canvas calls the
\* collection's onMouseUp, whether the mouse-down of the gesture was forwarded
\* to the collection or not (pan modifier held, or pressed off the canvas);
\* a mouse-up of another button calls nothing.
C16_UpForwardedWhateverDown ==
  hist.type = "mouseup"
    => IF hist.button = 0
       THEN HasCall("onMouseUp") /\ hist.gesture \in {"forwarded", "unforwarded"}
       ELSE ~HasCall("onMouseUp")

C16_Witness ==
  /\ hist.type = "mouseup"
  /\ hist.button = 0
  /\ hist.gesture = "unforwarded"
  /\ HasCall("onMouseUp")
  /\ CanDraw(viewer)

\* C17: redraw produces no partial frame.  The collection paints only right
\* after clearCanvas of the label canvas and clearCanvas of the control canvas,
\* in that order, and a canvas is cleared only as part of such a frame; the
\* collection is painted with displayToImageRatio * UP_RES_RATIO and the two
\* canvases then show the shapes on a cleared background; a redraw with a
\* canvas or a context missing clears nothing, paints nothing and leaves both
\* canvases as they were.
C17_NoPartialFrame ==
  /\ [](\A i \in 1..Len(hist.calls) :
          /\ hist.calls[i].op = "labels.redraw"
             => /\ i >= 3
                /\ hist.calls[i - 2].op = "clearCanvas.label"
                /\ hist.calls[i - 1].op = "clearCanvas.control"
                /\ hist.calls[i].ratio
                     = viewer.displayToImageRatio * UP_RES_RATIO
          /\ hist.calls[i].op = "clearCanvas.label"
             => i + 2 <= Len(hist.calls)
                /\ hist.calls[i + 2].op = "labels.redraw"
          /\ hist.calls[i].op = "clearCanvas.control"
             => i + 1 <= Len(hist.calls)
                /\ hist.calls[i + 1].op = "labels.redraw")
  /\ [](HasCall("redraw")
        => IF CanDraw(viewer)
           THEN /\ HasCall("labels.redraw")
                /\ canvas = [label |-> DrawLabels(labels.shapes),
                             control |-> DrawControl(labels.shapes)]
           ELSE ~HasCall("labels.redraw"))
  /\ [][(hist'.type # "mount" /\ ~HasCallNext("labels.redraw"))
         => canvas' = canvas]_vars

\* a repaint after a shape moved: the pixel it left is cleared
C17_Witness ==
  /\ hist.type = "mousemove"
  /\ HasCall("labels.redraw")
  /\ \E p \in Points : canvas.label[p] # 0
  /\ \E p \in Points : canvas.label[p] = 0

RedrawCalls == {i \in 1..Len(hist.calls) : hist.calls[i].op = "redraw"}

\* C18: a mouse-move runs redraw, once, and stops the propagation of the
\* event exactly when the collection's onMouseMove returned true for it; a
\* left-button mouse-down and a left-button mouse-up each run redraw exactly
\* once, whatever the collection returned and whether or not the mouse-down
\* was forwarded.
C18_RedrawPerPointerEvent ==
  /\ hist.type = "mousemove"
     => /\ Cardinality(RedrawCalls) = (IF hist.result THEN 1 ELSE 0)
        /\ Len(hist.redraws) = Cardinality(RedrawCalls)
        /\ hist.stopped = hist.result
  /\ (hist.type \in {"mousedown", "mouseup"} /\ hist.button = 0)
     => /\ Cardinality(RedrawCalls) = 1
        /\ Len(hist.redraws) = 1

\* a mouse-move the collection answered with true: one redraw, propagation
\* stopped
C18_Witness ==
  /\ hist.type = "mousemove"
  /\ hist.result
  /\ hist.stopped
  /\ HasCall("labels.redraw")
  /\ Len(hist.redraws) = 1

ToolBarListeners == {l \in dom.listeners : l[1] = "toolbar.keydown"}

\* C19: the ToolBar's keydown listener is registered while the ToolBar is
\* mounted and only then.  A keydown after the unmount runs no ToolBar
\* listener and dispatches nothing, and a keydown while it is mounted
\* dispatches at most one deleteLabel, also after a remount.
C19_ToolBarListenerLifecycle ==
  /\ ToolBarListeners
       = (IF dom.mounted THEN {<<"toolbar.keydown", dom.instance>>} ELSE {})
  /\ hist.type = "keydown"
     => /\ Len(hist.dispatched) <= 1
        /\ ~dom.mounted
           => /\ hist.dispatched = <<>>
              /\ \A l \in hist.ran : l[1] # "toolbar.keydown"

\* Backspace with a label selected, after the unmount
C19_Witness ==
  /\ hist.type = "keydown"
  /\ hist.key = "Backspace"
  /\ ~dom.mounted
  /\ dom.instance > 0
  /\ session.select.label >= 0
  /\ hist.dispatched = <<>>

Named(toggleName) ==
  {i \in 1..Len(session.attributes) :
     session.attributes[i].name = toggleName}

\* C20: handleAttributeToggle dispatches nothing when no attribute of the
\* configuration has the name toggleName; otherwise it dispatches one
\* addLabelTag whose attributeIndex is the index of the last attribute with
\* that name and whose selectedIndex is the first position of alignment in
\* the values of that attribute (indexOf: -1 when alignment is not one of
\* them); the toggle itself leaves the store as it was.
C20_AttributeToggle ==
  /\ [](hist.type = "toggle" =>
          IF Named(hist.toggleName) = {}
          THEN hist.dispatched = <<>>
          ELSE \E i \in Named(hist.toggleName) :
                 /\ \A j \in Named(hist.toggleName) : j <= i
                 /\ Len(hist.dispatched) = 1
                 /\ hist.dispatched[1].type = "addLabelTag"
                 /\ hist.dispatched[1].attributeIndex = i - 1
                 /\ LET values == session.attributes[i].values
                        k == hist.dispatched[1].selectedIndex
                    IN IF \E n \in 1..Len(values) : values[n] = hist.alignment
                       THEN /\ k + 1 \in 1..Len(values)
                            /\ values[k + 1] = hist.alignment
                            /\ \A n \in 1..k : values[n] # hist.alignment
                       ELSE k = -1)
  /\ [][hist'.type = "toggle" => session' = session]_vars

\* two attributes of the same name: the last one is addressed
C20_Witness ==
  /\ hist.type = "toggle"
  /\ Cardinality(Named(hist.toggleName)) = 2
  /\ Len(hist.dispatched) = 1
  /\ hist.dispatched[1].attributeIndex = 1
  /\ hist.dispatched[1].selectedIndex = 1

\* C21: a mouse-down or a mouse-up of a button other than the left one is
\* ignored, whatever keys are held: the collection is not called, nothing is
\* dispatched, redraw does not run, and the viewer, the shapes and the two
\* canvases stay as they were.
C21_NonLeftButtonIgnored ==
  [][(hist'.type \in {"mousedown", "mouseup"} /\ hist'.button # 0)
       => /\ hist'.calls = <<>>
          /\ hist'.redraws = <<>>
          /\ hist'.dispatched = <<>>
          /\ viewer' = viewer
          /\ labels' = labels
          /\ canvas' = canvas]_vars

\* a mouse-up of another button in the middle of a left-button drag
C21_Witness ==
  /\ hist.type = "mouseup"
  /\ hist.button # 0
  /\ NonIdle(labels.shapes) # {}
  /\ CanDraw(viewer)
  /\ hist.calls = <<>>

====
